---- MODULE Spec2Model ----
(***************************************************************************)
(* Request lifecycle of the two data-fetching hooks of the repository:     *)
(*   Unit A  useGridData      (src/src/hooks/useGridData.ts, lines 31-82)   *)
(*   Unit B  usePollingFetch  (src/src/hooks/useGridData.ts, lines 108-166) *)
(* together with the render state ProductGrid hands to its children        *)
(* (src/src/components/CustomProductCard.tsx, lines 186-214) and the mock   *)
(* transport (src/src/utils/mockProductApi.ts, lines 107-121), which never  *)
(* looks at the abort signal.                                              *)
(*                                                                         *)
(* A hook instance is a set of React state cells, the props of the current *)
(* render, the list of effects that have run (each effect owns one         *)
(* AbortController and, in Unit B, one interval timer) and the list of     *)
(* fetchData() calls ("attempts") with the await each one is suspended at. *)
(* State updates, effect runs and promise settlements are separate steps   *)
(* of the event loop, so they interleave freely.                           *)
(***************************************************************************)
EXTENDS Integers, Sequences, FiniteSets, TLC

\* ---------------------------------------------------------------- bounds
MaxEffects == 2
MaxAttempts == 3
MaxRefetch == 2
MaxCalls == 2
MaxControllers == 2

\* ---------------------------------------------------------------- values
Urls == {"/a", "/b"}

Statuses == {200, 500}

\* interval?: number  -- Undefined stands for a missing argument
Undefined == -1
PollT == 3000
Intervals == {Undefined, 0, PollT}

Null == <<"null">>
EmptyList == <<"list">>

\* the text of a response body: JSON for the products of url u, or not JSON
JsonText(u) == <<"text", "json", u>>
GarbageText == <<"text", "garbage">>
Bodies(u) == {JsonText(u), GarbageText}

\* thrown values: isError is `err instanceof Error`
AbortError == [isError |-> TRUE, name |-> "AbortError", message |-> <<"msg", "The operation was aborted.">>]
NetworkError == [isError |-> TRUE, name |-> "TypeError", message |-> <<"msg", "Failed to fetch">>]
SyntaxError == [isError |-> TRUE, name |-> "SyntaxError", message |-> <<"msg", "Unexpected token">>]
EmptyError == [isError |-> TRUE, name |-> "Error", message |-> <<"msg", "">>]
NonError == [isError |-> FALSE, name |-> "", message |-> <<"msg", "">>]
HttpError_noStatus(status) == [isError |-> TRUE, name |-> "Error", message |-> <<"msg", "HTTP error!">>]
HttpError(status) == [isError |-> TRUE, name |-> "Error", message |-> <<"msg", "HTTP error! status: ", status>>]

\* rejections of fetch() that are not caused by the signal: an Error with a
\* message, an Error without one, and a thrown value that is not an Error
TransportErrors == {NetworkError, EmptyError, NonError}

\* ---------------------------------------------------------------- pure parts
\* response.ok
ResponseOk(status) == status >= 200 /\ status <= 299

\* response.json(): the parsed value, or a SyntaxError
ResponseJson(body) ==
  IF body[2] = "json"
    THEN [ok |-> TRUE, value |-> <<"list", body[3]>>]
    ELSE [ok |-> FALSE, err |-> SyntaxError]

\* catch: `err instanceof Error && err.name === 'AbortError'`
IsAbortError_never(err) == FALSE
IsAbortError_always(err) == TRUE
IsAbortError_anyError(err) == err.isError
IsAbortError(err) == err.isError /\ err.name = "AbortError"

\* catch of useGridData: `err instanceof Error ? err.message : 'Failed to fetch data'`
ErrorMessage(err) == IF err.isError THEN err.message ELSE <<"msg", "Failed to fetch data">>

\* useState initial values
InitialData_empty == EmptyList
InitialData == Null
InitialLoading_false == FALSE
InitialLoading == TRUE

\* useCallback(fn, deps): the memoized function when deps are unchanged,
\* a new function (an identity not seen before) otherwise
UseCallback_fresh(memoFn, memoDeps, deps) == memoFn + 1
UseCallback(memoFn, memoDeps, deps) == IF memoDeps = deps THEN memoFn ELSE memoFn + 1

\* ProductGrid: the render state handed to children
RenderState_raw(d, l, e, f) == [isLoading |-> l, data |-> d, error |-> e, refetchData |-> f]
RenderState(d, l, e, f) ==
  [isLoading |-> l, data |-> IF d = Null THEN EmptyList ELSE d, error |-> e, refetchData |-> f]

\* dependency array of the effect of useGridData
ADeps_urlOnly(url, trigger) == <<url, 0>>
ADeps(url, trigger) == <<url, trigger>>

\* dependency array of the effect of usePollingFetch
BDeps_intervalOnly(url, interval) == <<interval>>
BDeps_urlOnly(url, interval) == <<url>>
BDeps(url, interval) == <<url, interval>>

\* `interval && interval > 0`
Polls_defined(interval) == interval # Undefined
Polls_never(interval) == FALSE
Polls(interval) == interval # Undefined /\ interval # 0 /\ interval > 0

\* ---------------------------------------------------------------- state
VARIABLES
  aUrl,        \* Unit A: prop apiUrl of the current render
  aData, aLoading, aError, aTrigger,   \* Unit A: state cells
  aMounted,    \* Unit A: the component is mounted
  aEffects,    \* Unit A: effects run so far; effect e owns AbortController e
  aAborted,    \* Unit A: AbortControllers whose abort() was called
  aAttempts,   \* Unit A: fetchData() calls, in the order issued
  aRefetchFn,  \* Unit A: identity of refetchData in the current render
  aRender,     \* Unit A: render state ProductGrid handed to children
  bUrl, bInterval,          \* Unit B: props of the current render
  bData, bLoading, bError,  \* Unit B: state cells
  bMounted, bEffects, bAborted, bAttempts,
  bTimers,     \* Unit B: effects whose setInterval timer is active
  fetchLog,    \* window.fetch: the calls made so far and where each one went
  grid,        \* ProductGridDemo: the hook instance of each ProductGrid
  controllers  \* ProductGridDemo: AbortControllers created, and those aborted

aVars == <<aUrl, aData, aLoading, aError, aTrigger, aMounted, aEffects, aAborted,
           aAttempts, aRefetchFn, aRender>>
bVars == <<bUrl, bInterval, bData, bLoading, bError, bMounted, bEffects, bAborted,
           bAttempts, bTimers>>
\* what the hooks' own steps leave alone
xVars == <<fetchLog, grid, controllers>>
vars == <<aVars, bVars, xVars>>

FirstFn == 1

\* ProductGridDemo renders several ProductGrid, each with its own url; two of
\* them are followed
Grids == {"/api/products/widgets", "/api/products/gadgets"}

\* the hook instance of the ProductGrid rendered with apiUrl k, before its
\* first effect: url, state cells, deps and controller of the last effect
\* (none yet), and the fetchData() calls so far
GridInstance(k, mounted) ==
  [mounted |-> mounted, url |-> k, data |-> InitialData, loading |-> InitialLoading,
   error |-> Null, trigger |-> 0, deps |-> <<>>, ctl |-> 0, attempts |-> <<>>]

\* App shows one tab at a time: 'task1' mounts PollingDemo (Unit B),
\* 'task2' mounts ProductGridDemo (Unit A)
Tabs == {"task1", "task2"}

Init ==
  /\ \E activeTab \in Tabs : aMounted = (activeTab = "task2") /\ bMounted = (activeTab = "task1")
  /\ aUrl \in (IF aMounted THEN Urls ELSE {"/a"})
  /\ aData = InitialData
  /\ aLoading = InitialLoading
  /\ aError = Null
  /\ aTrigger = 0
  /\ aEffects = <<>>
  /\ aAborted = {}
  /\ aAttempts = <<>>
  /\ aRefetchFn = FirstFn
  /\ aRender = RenderState(aData, aLoading, aError, aRefetchFn)
  /\ fetchLog = <<>>
  /\ grid = [k \in Grids |-> GridInstance(k, aMounted)]
  /\ controllers = [count |-> 0, aborted |-> {}]
  /\ bUrl \in (IF bMounted THEN Urls ELSE {"/a"})
  /\ bInterval \in (IF bMounted THEN Intervals ELSE {Undefined})
  /\ bData = InitialData
  /\ bLoading = InitialLoading
  /\ bError = FALSE
  /\ bEffects = <<>>
  /\ bAborted = {}
  /\ bAttempts = <<>>
  /\ bTimers = {}

\* ---------------------------------------------------------------- Unit A
\* a render of ProductGrid with state cells d, l, e
ARerender(d, l, e) ==
  /\ aRefetchFn' = UseCallback(aRefetchFn, <<>>, <<>>)
  /\ aRender' = RenderState(d, l, e, aRefetchFn')

ANoRender == UNCHANGED <<aRefetchFn, aRender>>

\* the deps of the effect that ran last
ALastDeps == IF aEffects = <<>> THEN <<>> ELSE aEffects[Len(aEffects)].deps

\* the updater passed to setRefetchTrigger: prev => prev + 1
SetRefetchTrigger_double(prev) == prev + 2
SetRefetchTrigger(prev) == prev + 1

\* refetchData(): setRefetchTrigger(prev => prev + 1)
ARefetch ==
  /\ aMounted
  /\ aTrigger < MaxRefetch
  /\ aTrigger' = SetRefetchTrigger(aTrigger)
  /\ ARerender(aData, aLoading, aError)
  /\ UNCHANGED <<aUrl, aData, aLoading, aError, aMounted, aEffects, aAborted, aAttempts>>
  /\ UNCHANGED <<bVars, xVars>>

\* the parent renders ProductGrid with another apiUrl; React runs the effects
\* of a render before the next render starts
AKeyChangeStep(u) ==
  /\ aMounted
  /\ u # aUrl
  /\ aEffects # <<>> /\ aEffects[Len(aEffects)].url = aUrl
  /\ Len(aEffects) < MaxEffects
  /\ aUrl' = u
  /\ ARerender(aData, aLoading, aError)
  /\ UNCHANGED <<aData, aLoading, aError, aTrigger, aMounted, aEffects, aAborted, aAttempts>>

AKeyChange(u) == AKeyChangeStep(u) /\ UNCHANGED <<bVars, xVars>>

\* the cleanup of the last effect: abortController.abort()
ACleanup_noAbort == aAborted' = aAborted
ACleanup == aAborted' = IF aEffects = <<>> THEN aAborted ELSE aAborted \cup {Len(aEffects)}

\* useEffect: after a render whose deps differ from those of the last effect,
\* the cleanup of the last effect runs, then the effect body up to the first await
AEffectStep ==
  /\ aMounted
  /\ ALastDeps # ADeps(aUrl, aTrigger)
  /\ Len(aEffects) < MaxEffects
  /\ LET e == Len(aEffects) + 1 IN
       /\ ACleanup
       /\ aEffects' = Append(aEffects, [url |-> aUrl, deps |-> ADeps(aUrl, aTrigger)])
       /\ aAttempts' = Append(aAttempts, [ctl |-> e, url |-> aUrl, pc |-> "fetch", out |-> "none", data0 |-> aData])
       /\ aLoading' = TRUE
       /\ aError' = Null
  /\ ARerender(aData, aLoading', aError')
  /\ UNCHANGED <<aUrl, aData, aTrigger, aMounted>>

AEffect == AEffectStep /\ UNCHANGED <<bVars, xVars>>

\* catch block of fetchData for attempt i; React drops the state updates of a
\* component that is no longer mounted
ACatch_clearsData(i, err) ==
  IF IsAbortError(err)
    THEN /\ aAttempts' = [aAttempts EXCEPT ![i].pc = "done", ![i].out = "aborted"]
         /\ UNCHANGED <<aData, aLoading, aError>>
         /\ ANoRender
    ELSE /\ aAttempts' = [aAttempts EXCEPT ![i].pc = "done", ![i].out = "error"]
         /\ IF aMounted
              THEN /\ aError' = ErrorMessage(err)
                   /\ aLoading' = FALSE
                   /\ aData' = Null
                   /\ ARerender(aData', aLoading', aError')
              ELSE UNCHANGED <<aData, aLoading, aError>> /\ ANoRender
ACatch(i, err) ==
  IF IsAbortError(err)
    THEN /\ aAttempts' = [aAttempts EXCEPT ![i].pc = "done", ![i].out = "aborted"]
         /\ UNCHANGED <<aData, aLoading, aError>>
         /\ ANoRender
    ELSE /\ aAttempts' = [aAttempts EXCEPT ![i].pc = "done", ![i].out = "error"]
         /\ IF aMounted
              THEN /\ aError' = ErrorMessage(err)
                   /\ aLoading' = FALSE
                   /\ ARerender(aData, aLoading', aError')
              ELSE UNCHANGED <<aLoading, aError>> /\ ANoRender
         /\ UNCHANGED aData

\* `await fetch(...)` of attempt i resolves with a response
AFetchResolvesStep(i, status) ==
  /\ i \in 1..Len(aAttempts)
  /\ aAttempts[i].pc = "fetch"
  /\ IF ResponseOk(status)
       THEN /\ aAttempts' = [aAttempts EXCEPT ![i].pc = "json"]
            /\ UNCHANGED <<aData, aLoading, aError>>
            /\ ANoRender
       ELSE ACatch(i, HttpError(status))
  /\ UNCHANGED <<aUrl, aTrigger, aMounted, aEffects, aAborted>>

AFetchResolves(i, status) == AFetchResolvesStep(i, status) /\ UNCHANGED <<bVars, xVars>>

\* `await fetch(...)` of attempt i rejects; an AbortError only after abort()
AFetchRejectsStep(i, err) ==
  /\ i \in 1..Len(aAttempts)
  /\ aAttempts[i].pc = "fetch"
  /\ err = AbortError => aAttempts[i].ctl \in aAborted
  /\ ACatch(i, err)
  /\ UNCHANGED <<aUrl, aTrigger, aMounted, aEffects, aAborted>>

AFetchRejects(i, err) == AFetchRejectsStep(i, err) /\ UNCHANGED <<bVars, xVars>>

\* `await response.json()` of attempt i settles after reading the text `body`
AJsonSettlesStep(i, body) ==
  /\ i \in 1..Len(aAttempts)
  /\ aAttempts[i].pc = "json"
  /\ body \in Bodies(aAttempts[i].url)
  /\ LET r == ResponseJson(body) IN
       IF r.ok
         THEN /\ aAttempts' = [aAttempts EXCEPT ![i].pc = "done", ![i].out = "ok"]
              /\ IF aMounted
                   THEN /\ aData' = r.value
                        /\ aLoading' = FALSE
                        /\ ARerender(aData', aLoading', aError)
                   ELSE UNCHANGED <<aData, aLoading>> /\ ANoRender
              /\ UNCHANGED aError
         ELSE ACatch(i, r.err)
  /\ UNCHANGED <<aUrl, aTrigger, aMounted, aEffects, aAborted>>

AJsonSettles(i, body) == AJsonSettlesStep(i, body) /\ UNCHANGED <<bVars, xVars>>

\* reading the body of attempt i is interrupted by abort()
AJsonAbortsStep(i) ==
  /\ i \in 1..Len(aAttempts)
  /\ aAttempts[i].pc = "json"
  /\ aAttempts[i].ctl \in aAborted
  /\ ACatch(i, AbortError)
  /\ UNCHANGED <<aUrl, aTrigger, aMounted, aEffects, aAborted>>

AJsonAborts(i) == AJsonAbortsStep(i) /\ UNCHANGED <<bVars, xVars>>

\* unmount: the cleanup of the last effect runs
AUnmountStep ==
  /\ aMounted
  /\ aMounted' = FALSE
  /\ ACleanup
  /\ UNCHANGED <<aUrl, aData, aLoading, aError, aTrigger, aEffects, aAttempts, aRefetchFn, aRender>>

AUnmount == AUnmountStep /\ UNCHANGED <<bVars, xVars>>

\* ---------------------------------------------------------------- Unit B
\* the deps of the effect that ran last
BLastDeps == IF bEffects = <<>> THEN <<>> ELSE bEffects[Len(bEffects)].deps

\* the cleanup of the last effect: abort(), and clearInterval if a timer was set
BCleanup_noClear ==
  /\ bAborted' = IF bEffects = <<>> THEN bAborted ELSE bAborted \cup {Len(bEffects)}
  /\ bTimers' = bTimers
BCleanup ==
  /\ bAborted' = IF bEffects = <<>> THEN bAborted ELSE bAborted \cup {Len(bEffects)}
  /\ bTimers' = bTimers \ {Len(bEffects)}

\* fetchData() of effect e, whose closure holds url u, up to its first await
BFetchData_keepError(e, u) ==
  /\ bAttempts' = Append(bAttempts, [ctl |-> e, url |-> u, pc |-> "fetch", out |-> "none", data0 |-> bData])
  /\ bLoading' = TRUE
  /\ bError' = bError
BFetchData(e, u) ==
  /\ bAttempts' = Append(bAttempts, [ctl |-> e, url |-> u, pc |-> "fetch", out |-> "none", data0 |-> bData])
  /\ bLoading' = TRUE
  /\ bError' = FALSE

\* the parent renders the hook's component with another url; React runs the
\* effects of a render before the next render starts
BUrlChangeStep(u) ==
  /\ bMounted
  /\ u # bUrl
  /\ BLastDeps = BDeps(bUrl, bInterval)
  /\ Len(bEffects) < MaxEffects /\ Len(bAttempts) < MaxAttempts
  /\ bUrl' = u
  /\ UNCHANGED <<bInterval, bData, bLoading, bError, bMounted, bEffects, bAborted, bAttempts, bTimers>>

BUrlChange(u) == BUrlChangeStep(u) /\ UNCHANGED <<aVars, xVars>>

\* the parent renders the hook's component with another interval
BIntervalChange(t) ==
  /\ bMounted
  /\ t # bInterval
  /\ BLastDeps = BDeps(bUrl, bInterval)
  /\ Len(bEffects) < MaxEffects /\ Len(bAttempts) < MaxAttempts
  /\ bInterval' = t
  /\ UNCHANGED <<bUrl, bData, bLoading, bError, bMounted, bEffects, bAborted, bAttempts, bTimers>>
  /\ UNCHANGED <<aVars, xVars>>

\* useEffect: cleanup of the last effect, then the effect body:
\* new AbortController, fetchData(), setInterval when polling
BEffectStep ==
  /\ bMounted
  /\ BLastDeps # BDeps(bUrl, bInterval)
  /\ Len(bEffects) < MaxEffects /\ Len(bAttempts) < MaxAttempts
  /\ LET e == Len(bEffects) + 1 IN
       /\ bEffects' = Append(bEffects, [url |-> bUrl, interval |-> bInterval, deps |-> BDeps(bUrl, bInterval), ticks |-> 0])
       /\ bAborted' = IF bEffects = <<>> THEN bAborted ELSE bAborted \cup {Len(bEffects)}
       /\ bTimers' = (bTimers \ {Len(bEffects)}) \cup (IF Polls(bInterval) THEN {e} ELSE {})
       /\ BFetchData(e, bUrl)
  /\ UNCHANGED <<bUrl, bInterval, bData, bMounted>>

BEffect == BEffectStep /\ UNCHANGED <<aVars, xVars>>

\* the interval timer of effect e fires once more (another period has
\* elapsed): fetchData()
BTick(e) ==
  /\ e \in bTimers
  /\ Len(bAttempts) < MaxAttempts
  /\ bEffects' = [bEffects EXCEPT ![e].ticks = @ + 1]
  /\ BFetchData(e, bEffects[e].url)
  /\ UNCHANGED <<bUrl, bInterval, bData, bMounted, bAborted, bTimers>>
  /\ UNCHANGED <<aVars, xVars>>

\* catch block of fetchData for attempt i; React drops the state updates of a
\* component that is no longer mounted
BCatch(i, err) ==
  /\ bAttempts' = [bAttempts EXCEPT ![i].pc = "done", ![i].out = IF IsAbortError(err) THEN "aborted" ELSE "error"]
  /\ IF IsAbortError(err) \/ ~bMounted
       THEN UNCHANGED <<bLoading, bError>>
       ELSE /\ bError' = TRUE
            /\ bLoading' = FALSE
  /\ UNCHANGED bData

\* `await fetch(...)` of attempt i resolves with a response
BFetchResolvesStep(i, status) ==
  /\ i \in 1..Len(bAttempts)
  /\ bAttempts[i].pc = "fetch"
  /\ IF ResponseOk(status)
       THEN /\ bAttempts' = [bAttempts EXCEPT ![i].pc = "json"]
            /\ UNCHANGED <<bData, bLoading, bError>>
       ELSE BCatch(i, HttpError(status))
  /\ UNCHANGED <<bUrl, bInterval, bMounted, bEffects, bAborted, bTimers>>

BFetchResolves(i, status) == BFetchResolvesStep(i, status) /\ UNCHANGED <<aVars, xVars>>

\* `await fetch(...)` of attempt i rejects; an AbortError only after abort()
BFetchRejectsStep(i, err) ==
  /\ i \in 1..Len(bAttempts)
  /\ bAttempts[i].pc = "fetch"
  /\ err = AbortError => bAttempts[i].ctl \in bAborted
  /\ BCatch(i, err)
  /\ UNCHANGED <<bUrl, bInterval, bMounted, bEffects, bAborted, bTimers>>

BFetchRejects(i, err) == BFetchRejectsStep(i, err) /\ UNCHANGED <<aVars, xVars>>

\* `await response.json()` of attempt i settles after reading the text `body`
BJsonSettlesStep(i, body) ==
  /\ i \in 1..Len(bAttempts)
  /\ bAttempts[i].pc = "json"
  /\ body \in Bodies(bAttempts[i].url)
  /\ LET r == ResponseJson(body) IN
       IF r.ok
         THEN /\ bAttempts' = [bAttempts EXCEPT ![i].pc = "done", ![i].out = "ok"]
              /\ IF bMounted
                   THEN /\ bData' = r.value
                        /\ bLoading' = FALSE
                   ELSE UNCHANGED <<bData, bLoading>>
              /\ UNCHANGED bError
         ELSE BCatch(i, r.err)
  /\ UNCHANGED <<bUrl, bInterval, bMounted, bEffects, bAborted, bTimers>>

BJsonSettles(i, body) == BJsonSettlesStep(i, body) /\ UNCHANGED <<aVars, xVars>>

\* reading the body of attempt i is interrupted by abort()
BJsonAbortsStep(i) ==
  /\ i \in 1..Len(bAttempts)
  /\ bAttempts[i].pc = "json"
  /\ bAttempts[i].ctl \in bAborted
  /\ BCatch(i, AbortError)
  /\ UNCHANGED <<bUrl, bInterval, bMounted, bEffects, bAborted, bTimers>>

BJsonAborts(i) == BJsonAbortsStep(i) /\ UNCHANGED <<aVars, xVars>>

\* unmount: the cleanup of the last effect runs
BUnmountStep ==
  /\ bMounted
  /\ bMounted' = FALSE
  /\ BCleanup
  /\ UNCHANGED <<bUrl, bInterval, bData, bLoading, bError, bEffects, bAttempts>>

BUnmount == BUnmountStep /\ UNCHANGED <<aVars, xVars>>

Next ==
  \/ ARefetch
  \/ \E u \in Urls : AKeyChange(u)
  \/ AEffect
  \/ \E i \in 1..MaxEffects, s \in Statuses : AFetchResolves(i, s)
  \/ \E i \in 1..MaxEffects, err \in TransportErrors \cup {AbortError} : AFetchRejects(i, err)
  \/ \E i \in 1..MaxEffects, b \in UNION {Bodies(u) : u \in Urls} : AJsonSettles(i, b)
  \/ \E i \in 1..MaxEffects : AJsonAborts(i)
  \/ AUnmount
  \/ \E u \in Urls : BUrlChange(u)
  \/ \E t \in Intervals : BIntervalChange(t)
  \/ BEffect
  \/ \E e \in 1..MaxEffects : BTick(e)
  \/ \E i \in 1..MaxAttempts, s \in Statuses : BFetchResolves(i, s)
  \/ \E i \in 1..MaxAttempts, err \in TransportErrors \cup {AbortError} : BFetchRejects(i, err)
  \/ \E i \in 1..MaxAttempts, b \in UNION {Bodies(u) : u \in Urls} : BJsonSettles(i, b)
  \/ \E i \in 1..MaxAttempts : BJsonAborts(i)
  \/ BUnmount

Spec == Init /\ [][Next]_vars

\* ------------------------------------------------ both hooks side by side
\* One component calls useGridData(url) and usePollingFetch(url, interval)
\* with polling disabled (interval missing or 0) and never calls
\* refetchData; the transport gives the i-th request of either hook the same
\* outcome at the same moment.
LockInit ==
  /\ aMounted = TRUE /\ bMounted = TRUE
  /\ aUrl \in Urls /\ bUrl = aUrl
  /\ bInterval \in {t \in Intervals : ~Polls(t)}
  /\ aData = InitialData /\ bData = InitialData
  /\ aLoading = InitialLoading /\ bLoading = InitialLoading
  /\ aError = Null /\ bError = FALSE
  /\ aTrigger = 0
  /\ aEffects = <<>> /\ bEffects = <<>>
  /\ aAborted = {} /\ bAborted = {}
  /\ aAttempts = <<>> /\ bAttempts = <<>>
  /\ bTimers = {}
  /\ aRefetchFn = FirstFn
  /\ aRender = RenderState(aData, aLoading, aError, aRefetchFn)
  /\ fetchLog = <<>>
  /\ grid = [k \in Grids |-> GridInstance(k, aMounted)]
  /\ controllers = [count |-> 0, aborted |-> {}]

\* the component renders with another url
LockKeyChange(u) == AKeyChangeStep(u) /\ BUrlChangeStep(u) /\ UNCHANGED xVars

\* React runs the effects of the render: each hook's effect runs when its own
\* deps changed
LockEffect ==
  /\ ALastDeps # ADeps(aUrl, aTrigger) \/ BLastDeps # BDeps(bUrl, bInterval)
  /\ IF ALastDeps # ADeps(aUrl, aTrigger) THEN AEffectStep ELSE UNCHANGED aVars
  /\ IF BLastDeps # BDeps(bUrl, bInterval) THEN BEffectStep ELSE UNCHANGED bVars
  /\ UNCHANGED xVars

\* the i-th request of both hooks gets the same outcome
LockFetchResolves(i, status) == AFetchResolvesStep(i, status) /\ BFetchResolvesStep(i, status) /\ UNCHANGED xVars

LockFetchRejects(i, err) == AFetchRejectsStep(i, err) /\ BFetchRejectsStep(i, err) /\ UNCHANGED xVars

LockJsonSettles(i, body) == AJsonSettlesStep(i, body) /\ BJsonSettlesStep(i, body) /\ UNCHANGED xVars

LockJsonAborts(i) == AJsonAbortsStep(i) /\ BJsonAbortsStep(i) /\ UNCHANGED xVars

\* the component unmounts
LockUnmount == AUnmountStep /\ BUnmountStep /\ UNCHANGED xVars

LockNext ==
  \/ \E u \in Urls : LockKeyChange(u)
  \/ LockEffect
  \/ \E i \in 1..MaxEffects, s \in Statuses : LockFetchResolves(i, s)
  \/ \E i \in 1..MaxEffects, err \in TransportErrors \cup {AbortError} : LockFetchRejects(i, err)
  \/ \E i \in 1..MaxEffects, b \in UNION {Bodies(u) : u \in Urls} : LockJsonSettles(i, b)
  \/ \E i \in 1..MaxEffects : LockJsonAborts(i)
  \/ LockUnmount

SpecLock == LockInit /\ [][LockNext]_vars

\* ------------------------------------------------ the window.fetch override
\* keys of mockApiEndpoints in mockProductApi.ts and in PollingDemo.tsx
ProductEndpoints == {"/api/products/widgets", "/api/products/gadgets", "/api/products/featured"}
PollingEndpoints == {"/api/posts", "/api/users", "/api/error"}

\* property names every object literal inherits from Object.prototype
ObjectPrototypeKeys == {"constructor", "toString"}

\* `url in mockApiEndpoints`: own and inherited property names
In(url, endpoints) == url \in endpoints \cup ObjectPrototypeKeys

\* the first argument of fetch: a string, or a URL object (with its href)
FetchInputs ==
  {[kind |-> "string", url |-> u] :
     u \in ProductEndpoints \cup PollingEndpoints \cup ObjectPrototypeKeys \cup {"/api/other"}}
  \cup {[kind |-> "URL", url |-> "http://localhost/api/products/widgets"],
        [kind |-> "URL", url |-> "http://localhost/api/other"]}

\* the second argument of fetch: missing, or an object holding a signal
FetchInits == {"undefined", "{signal}"}

NotPassed == [kind |-> "none", url |-> ""]

\* `typeof input === 'string' ? input : input instanceof URL ? input.href : input.url`
UrlOf(input) == input.url

\* one call of window.fetch as App leaves it: the override installed by
\* initializeMockProductApi, whose originalFetch is the override installed
\* when PollingDemo.tsx was loaded, whose originalFetch is the browser's
WindowFetchResult(input, init) ==
  LET url == UrlOf(input) IN
    IF In(url, ProductEndpoints)
      THEN [input |-> input, init |-> init, by |-> "mockProductApi", handler |-> url,
            passedInput |-> NotPassed, passedInit |-> "none"]
      ELSE IF In(url, PollingEndpoints)
        THEN [input |-> input, init |-> init, by |-> "PollingDemo", handler |-> url,
              passedInput |-> NotPassed, passedInit |-> "none"]
        ELSE [input |-> input, init |-> init, by |-> "originalFetch", handler |-> "",
              passedInput |-> input, passedInit |-> init]

WindowFetch(input, init) ==
  /\ Len(fetchLog) < MaxCalls
  /\ fetchLog' = Append(fetchLog, WindowFetchResult(input, init))
  /\ UNCHANGED <<aVars, bVars, grid, controllers>>

FetchNext == \E input \in FetchInputs, init \in FetchInits : WindowFetch(input, init)

SpecFetch == Init /\ [][FetchNext]_vars

\* ------------------------------------------------ several ProductGrid at once
\* `new AbortController()`: an object not seen before
NewController_shared(count) == 1
NewController(count) == count + 1

\* the cleanup of the last effect of an instance: abortController.abort()
GridCleanup(g) == IF g.ctl = 0 THEN controllers.aborted ELSE controllers.aborted \cup {g.ctl}

\* refetchData() of instance k
GridRefetchStep(k) ==
  /\ grid[k].mounted
  /\ grid[k].trigger < MaxRefetch
  /\ grid[k].deps = ADeps(grid[k].url, grid[k].trigger)
  /\ controllers.count < MaxControllers
  /\ grid' = [grid EXCEPT ![k].trigger = SetRefetchTrigger(@)]
  /\ UNCHANGED controllers

GridRefetch(k) == GridRefetchStep(k) /\ UNCHANGED <<aVars, bVars, fetchLog>>

\* the parent renders instance k with another apiUrl
GridKeyChangeStep(k, u) ==
  /\ grid[k].mounted
  /\ u # grid[k].url
  /\ grid[k].deps = ADeps(grid[k].url, grid[k].trigger)
  /\ controllers.count < MaxControllers
  /\ grid' = [grid EXCEPT ![k].url = u]
  /\ UNCHANGED controllers

GridKeyChange(k, u) == GridKeyChangeStep(k, u) /\ UNCHANGED <<aVars, bVars, fetchLog>>

\* useEffect of instance k: cleanup of its last effect, then a new
\* controller and fetchData() up to the first await
GridEffectStep(k) ==
  /\ grid[k].mounted
  /\ grid[k].deps # ADeps(grid[k].url, grid[k].trigger)
  /\ controllers.count < MaxControllers
  /\ LET c == NewController(controllers.count) IN
       /\ controllers' = [count |-> controllers.count + 1, aborted |-> GridCleanup(grid[k])]
       /\ grid' = [grid EXCEPT ![k].deps = ADeps(grid[k].url, grid[k].trigger),
                               ![k].ctl = c,
                               ![k].attempts = Append(@, [ctl |-> c, url |-> grid[k].url, pc |-> "fetch", out |-> "none"]),
                               ![k].loading = TRUE,
                               ![k].error = Null]

GridEffect(k) == GridEffectStep(k) /\ UNCHANGED <<aVars, bVars, fetchLog>>

\* catch block of fetchData for attempt i of instance k
GridCatch(k, i, err) ==
  IF IsAbortError(err)
    THEN grid' = [grid EXCEPT ![k].attempts[i].pc = "done", ![k].attempts[i].out = "aborted"]
    ELSE IF grid[k].mounted
      THEN grid' = [grid EXCEPT ![k].attempts[i].pc = "done", ![k].attempts[i].out = "error",
                                ![k].error = ErrorMessage(err), ![k].loading = FALSE]
      ELSE grid' = [grid EXCEPT ![k].attempts[i].pc = "done", ![k].attempts[i].out = "error"]

\* `await fetch(...)` of attempt i of instance k resolves with a response
GridFetchResolvesStep(k, i, status) ==
  /\ i \in 1..Len(grid[k].attempts)
  /\ grid[k].attempts[i].pc = "fetch"
  /\ IF ResponseOk(status)
       THEN grid' = [grid EXCEPT ![k].attempts[i].pc = "json"]
       ELSE GridCatch(k, i, HttpError(status))
  /\ UNCHANGED controllers

GridFetchResolves(k, i, status) == GridFetchResolvesStep(k, i, status) /\ UNCHANGED <<aVars, bVars, fetchLog>>

\* `await fetch(...)` of attempt i of instance k rejects because its signal
\* was aborted
GridFetchAbortsStep(k, i) ==
  /\ i \in 1..Len(grid[k].attempts)
  /\ grid[k].attempts[i].pc = "fetch"
  /\ grid[k].attempts[i].ctl \in controllers.aborted
  /\ GridCatch(k, i, AbortError)
  /\ UNCHANGED controllers

GridFetchAborts(k, i) == GridFetchAbortsStep(k, i) /\ UNCHANGED <<aVars, bVars, fetchLog>>

\* `await response.json()` of attempt i of instance k settles
GridJsonSettlesStep(k, i, body) ==
  /\ i \in 1..Len(grid[k].attempts)
  /\ grid[k].attempts[i].pc = "json"
  /\ body \in Bodies(grid[k].attempts[i].url)
  /\ LET r == ResponseJson(body) IN
       IF r.ok
         THEN IF grid[k].mounted
                THEN grid' = [grid EXCEPT ![k].attempts[i].pc = "done", ![k].attempts[i].out = "ok",
                                          ![k].data = r.value, ![k].loading = FALSE]
                ELSE grid' = [grid EXCEPT ![k].attempts[i].pc = "done", ![k].attempts[i].out = "ok"]
         ELSE GridCatch(k, i, r.err)
  /\ UNCHANGED controllers

GridJsonSettles(k, i, body) == GridJsonSettlesStep(k, i, body) /\ UNCHANGED <<aVars, bVars, fetchLog>>

\* instance k unmounts: the cleanup of its last effect runs
GridUnmountStep(k) ==
  /\ grid[k].mounted
  /\ grid' = [grid EXCEPT ![k].mounted = FALSE]
  /\ controllers' = [controllers EXCEPT !.aborted = GridCleanup(grid[k])]

GridUnmount(k) == GridUnmountStep(k) /\ UNCHANGED <<aVars, bVars, fetchLog>>

GridNext ==
  \/ \E k \in Grids : GridRefetch(k)
  \/ \E k \in Grids, u \in Grids : GridKeyChange(k, u)
  \/ \E k \in Grids : GridEffect(k)
  \/ \E k \in Grids, i \in 1..MaxControllers, st \in Statuses : GridFetchResolves(k, i, st)
  \/ \E k \in Grids, i \in 1..MaxControllers : GridFetchAborts(k, i)
  \/ \E k \in Grids, i \in 1..MaxControllers, b \in UNION {Bodies(u) : u \in Grids} : GridJsonSettles(k, i, b)
  \/ \E k \in Grids : GridUnmount(k)

\* the 'task2' tab is shown
GridInit == Init /\ aMounted /\ aUrl = "/a"

SpecGrid == GridInit /\ [][GridNext]_vars

\* ---------------------------------------------------------------- properties
\* attempt i of Unit A runs its continuation in this step and writes a state cell
AWrites(i) ==
  /\ i \in 1..Len(aAttempts)
  /\ aAttempts[i].pc # "done" /\ aAttempts'[i].pc = "done"
  /\ aAttempts'[i].out \in {"ok", "error"}
  /\ aMounted

\* attempt i of Unit B runs its continuation in this step and writes a state cell
BWrites(i) ==
  /\ i \in 1..Len(bAttempts)
  /\ bAttempts[i].pc # "done" /\ bAttempts'[i].pc = "done"
  /\ bAttempts'[i].out \in {"ok", "error"}
  /\ bMounted

\* C1: Unit A, data, isLoading and error are only ever written by the most
\* recently issued attempt: a step in which an attempt writes state is a step
\* of the last attempt issued.
C1_OnlyLatestAttemptWrites ==
  [][\A i \in 1..MaxEffects : AWrites(i) => i = Len(aAttempts)]_vars

\* C2: Unit A, once abort() was called on an attempt's controller, the
\* continuation of that attempt leaves data, isLoading and error as they
\* were, also when the transport completes the request with a response or a
\* failure that is not an abort.
C2_CancelledAttemptWritesNothing ==
  [][\A i \in 1..Len(aAttempts) :
        (aAttempts[i].ctl \in aAborted /\ aAttempts'[i].pc # aAttempts[i].pc)
          => UNCHANGED <<aData, aLoading, aError>>]_vars

\* C3: Unit B, when a timer tick has issued a newer attempt of the same
\* effect, the settlement of the older attempt (success or failure) does not
\* change data, isLoading or error.
C3_TickSupersedesPending ==
  [][\A i \in 1..Len(bAttempts) :
        ((\E j \in (i+1)..Len(bAttempts) : bAttempts[j].ctl = bAttempts[i].ctl)
            /\ bAttempts'[i].pc # bAttempts[i].pc)
          => UNCHANGED <<bData, bLoading, bError>>]_vars

\* C4: no two attempts of a hook instance share an AbortController, and
\* every attempt but the last one issued has had its controller aborted.
C4_TokenPerAttempt ==
  /\ \A i, j \in 1..Len(aAttempts) : i < j => (aAttempts[i].ctl # aAttempts[j].ctl /\ aAttempts[i].ctl \in aAborted)
  /\ \A i, j \in 1..Len(bAttempts) : i < j => (bAttempts[i].ctl # bAttempts[j].ctl /\ bAttempts[i].ctl \in bAborted)

\* C5: in both hooks, while the instance is mounted and the attempt issued
\* last has not settled, isLoading is true.
C5_LoadingWhilePending ==
  /\ (aMounted /\ aAttempts # <<>> /\ aAttempts[Len(aAttempts)].pc # "done") => aLoading
  /\ (bMounted /\ bAttempts # <<>> /\ bAttempts[Len(bAttempts)].pc # "done") => bLoading

\* C6 as stated: data of either hook is never null.
C6_DataNeverNull == aData # Null /\ bData # Null

\* C6 as amended: in both hooks data is null, not an empty list, in every
\* state in which no attempt of the instance has succeeded, also after a
\* failed first attempt.
C6_DataNullUntilFirstSuccess ==
  /\ (\A i \in 1..Len(aAttempts) : aAttempts[i].out # "ok") => aData = Null
  /\ (\A i \in 1..Len(bAttempts) : bAttempts[i].out # "ok") => bData = Null

C6_Witness ==
  /\ Len(aAttempts) = 1 /\ aAttempts[1].out = "error"
  /\ ~aLoading /\ aError # Null /\ aData = Null

\* C7: the render state ProductGrid hands to children has a list as data,
\* the empty list exactly when the hook's data is null, and isLoading, error
\* and refetchData are those of the hook.
C7_RenderStateDataIsList ==
  /\ aRender.data # Null
  /\ aRender.data = (IF aData = Null THEN EmptyList ELSE aData)
  /\ aRender.isLoading = aLoading
  /\ aRender.error = aError
  /\ aRender.refetchData = aRefetchFn

C7_Witness ==
  /\ aData = Null /\ ~aLoading /\ aError # Null
  /\ aRender.data = EmptyList /\ aRender.error = aError

\* no key change so far: every effect ran for the current apiUrl
ANoKeyChange == \A e \in 1..Len(aEffects) : aEffects[e].url = aUrl

\* the effect has run for the current apiUrl and refetch counter
ASynced == aEffects # <<>> /\ aEffects[Len(aEffects)].url = aUrl /\ aEffects[Len(aEffects)].deps = ADeps(aUrl, aTrigger)

\* refetch() calls made since the first effect ran
ACallsSinceMount == aTrigger - aEffects[1].deps[2]

\* C8 as stated: with no key change, once the effect has run for the current
\* counter, the attempts issued after the first are as many as the refetch()
\* calls made since the first.
C8_ExactlyNAttempts ==
  (ANoKeyChange /\ ASynced) => Len(aAttempts) - 1 = ACallsSinceMount

\* C8 as amended: with no key change, n refetch() calls issue at most n new
\* attempts and, once the effect has run for the current counter, at least
\* one; every effect run issues one attempt, for a counter larger than that
\* of the run before, and aborts the controller of its predecessor.
C8_RefetchAttempts ==
  (ANoKeyChange /\ aEffects # <<>>) =>
    /\ Len(aAttempts) = Len(aEffects)
    /\ Len(aAttempts) - 1 <= aTrigger
    /\ (ASynced /\ aTrigger > aEffects[1].deps[2]) => Len(aAttempts) - 1 >= 1
    /\ \A e \in 2..Len(aEffects) : aEffects[e].deps[2] > aEffects[e-1].deps[2]
    /\ \A e \in 1..(Len(aEffects) - 1) : e \in aAborted

C8_Witness ==
  /\ ANoKeyChange /\ ASynced
  /\ aTrigger = 2 /\ aEffects[1].deps[2] = 0 /\ Len(aAttempts) = 2
  /\ aAttempts[1].pc # "done" /\ 1 \in aAborted

\* C9: refetchData has the identity it had in the first render in every
\* render, whatever state cell was updated and however often it was called.
C9_RefetchIdentityStable == aRefetchFn = FirstFn /\ aRender.refetchData = FirstFn

C9_Witness ==
  /\ aTrigger > 0 /\ aData # Null /\ ~aLoading
  /\ Len(aEffects) > 1
  /\ aRefetchFn = FirstFn

\* the attempts issued by effect e of Unit B
BAttemptsOf(e) == {i \in 1..Len(bAttempts) : bAttempts[i].ctl = e}

\* C10: Unit B, an effect that ran with interval undefined or 0 has issued
\* exactly one attempt and has no timer.
C10_NoPollingSingleAttempt ==
  \A e \in 1..Len(bEffects) :
    bEffects[e].interval \in {Undefined, 0} =>
      (Cardinality(BAttemptsOf(e)) = 1 /\ e \notin bTimers)

C10_Witness ==
  /\ bMounted /\ Len(bEffects) = 2
  /\ bEffects[1].interval = PollT /\ bEffects[2].interval = 0
  /\ \A i \in BAttemptsOf(2) : bAttempts[i].pc = "done"
  /\ bTimers = {}

\* C11: Unit B, an effect that ran with interval T > 0 has issued one attempt
\* at once and one more for every period elapsed since (k periods, k + 1
\* attempts, whether or not earlier attempts have settled), and its timer
\* stays set for as long as the hook is mounted with that url and interval.
C11_AttemptPerPeriod ==
  \A e \in 1..Len(bEffects) :
    bEffects[e].interval = PollT =>
      /\ Cardinality(BAttemptsOf(e)) = bEffects[e].ticks + 1
      /\ (bMounted /\ e = Len(bEffects)) => e \in bTimers

C11_Witness ==
  /\ bMounted /\ Len(bEffects) = 1
  /\ bEffects[1].interval = PollT /\ bEffects[1].ticks = 2
  /\ Len(bAttempts) = 3
  /\ \A i \in 1..3 : bAttempts[i].pc = "fetch"
  /\ 1 \in bTimers

\* C12: Unit B, once the cleanup of a configuration has run (url change,
\* interval change or unmount) every attempt of that configuration has its
\* token cancelled and its timer is cleared; every attempt issued afterwards
\* belongs to the current configuration and fetches its url; after unmount no
\* attempt is issued and data, isLoading and error never change again.
C12_CleanupStopsOldConfiguration ==
  /\ [](/\ \A i \in 1..Len(bAttempts) :
             (bAttempts[i].ctl < Len(bEffects) \/ ~bMounted) => bAttempts[i].ctl \in bAborted
        /\ bTimers \subseteq (IF bMounted THEN {Len(bEffects)} ELSE {}))
  /\ [][/\ Len(bAttempts') > Len(bAttempts) =>
             /\ bMounted'
             /\ bAttempts'[Len(bAttempts')].ctl = Len(bEffects')
             /\ bAttempts'[Len(bAttempts')].url = bEffects'[Len(bEffects')].url
        /\ ~bMounted =>
             /\ Len(bAttempts') = Len(bAttempts)
             /\ UNCHANGED <<bData, bLoading, bError>>]_vars

C12_Witness ==
  /\ ~bMounted /\ Len(bEffects) = 2
  /\ bEffects[1].interval = PollT /\ bEffects[1].ticks > 0
  /\ bTimers = {} /\ bAborted = {1, 2}
  /\ \E i \in 1..Len(bAttempts) : bAttempts[i].ctl = 2 /\ bAttempts[i].out = "ok"
  /\ bData = Null /\ bLoading

\* attempt i of Unit A is the live one: the last one issued, not cancelled,
\* on a mounted instance
ALive(i) == i = Len(aAttempts) /\ aAttempts[i].ctl \notin aAborted /\ aMounted

\* attempt i of Unit B is the live one
BLive(i) == i = Len(bAttempts) /\ bAttempts[i].ctl \notin bAborted /\ bMounted

\* C13: in both hooks, when the live attempt fails for a reason other than
\* cancellation, the resulting state has isLoading = false, error set (a
\* message in Unit A, true in Unit B) and data equal to the value data had
\* when the attempt started.
C13_FailureKeepsPriorData ==
  [][/\ \A i \in 1..Len(aAttempts) :
          (ALive(i) /\ aAttempts[i].pc # "done" /\ aAttempts'[i].out = "error")
            => (~aLoading' /\ aError' # Null /\ aData' = aAttempts[i].data0)
     /\ \A i \in 1..Len(bAttempts) :
          (BLive(i) /\ bAttempts[i].pc # "done" /\ bAttempts'[i].out = "error")
            => (~bLoading' /\ bError' = TRUE /\ bData' = bAttempts[i].data0)]_vars

\* C14: in both hooks, when the live attempt settles successfully (2xx status
\* and a body that parses), the resulting state has data equal to the parsed
\* body, isLoading = false and no error, whatever older attempts did in the
\* meantime.
C14_SuccessLeavesNoError ==
  [][/\ \A i \in 1..Len(aAttempts) :
          (ALive(i) /\ aAttempts[i].pc # "done" /\ aAttempts'[i].out = "ok")
            => (aData' = ResponseJson(JsonText(aAttempts[i].url)).value /\ ~aLoading' /\ aError' = Null)
     /\ \A i \in 1..Len(bAttempts) :
          (BLive(i) /\ bAttempts[i].pc # "done" /\ bAttempts'[i].out = "ok")
            => (bData' = ResponseJson(JsonText(bAttempts[i].url)).value /\ ~bLoading' /\ bError' = FALSE)]_vars

\* C15: in both hooks, a step in which an attempt ends through cancellation
\* (its fetch or its body read rejects with an AbortError after abort() was
\* called on its controller) leaves data, isLoading and error exactly as
\* they were.
C15_CancellationIsSilent ==
  [][/\ \A i \in 1..Len(aAttempts) :
          (AFetchRejects(i, AbortError) \/ AJsonAborts(i))
            => UNCHANGED <<aData, aLoading, aError>>
     /\ \A i \in 1..Len(bAttempts) :
          (BFetchRejects(i, AbortError) \/ BJsonAborts(i))
            => UNCHANGED <<bData, bLoading, bError>>]_vars

C15_Witness ==
  /\ aMounted /\ Len(aAttempts) = 2
  /\ aAttempts[1].out = "aborted" /\ aAttempts[2].pc = "fetch"
  /\ aLoading /\ aError = Null

\* C16: a response whose status is not 2xx is reported with its status code:
\* on a mounted instance the step leaves Unit A's error equal to the string
\* "HTTP error! status: <code>" for that code, and Unit B's error equal to
\* the boolean TRUE.
C16_HttpErrorCarriesStatus ==
  [][/\ \A i \in 1..Len(aAttempts), status \in Statuses :
          (AFetchResolves(i, status) /\ ~ResponseOk(status) /\ aMounted)
            => aError' = <<"msg", "HTTP error! status: ", status>>
     /\ \A i \in 1..Len(bAttempts), status \in Statuses :
          (BFetchResolves(i, status) /\ ~ResponseOk(status) /\ bMounted)
            => bError' = TRUE]_vars

C16_Witness ==
  /\ aMounted /\ Len(aAttempts) = 1
  /\ aAttempts[1].out = "error" /\ ~aLoading
  /\ aError = <<"msg", "HTTP error! status: ", 500>>

\* C17: Unit A, after a step in which an attempt of a mounted instance fails
\* with a failure that is not a cancellation, error is a non-empty string,
\* and it is the fallback 'Failed to fetch data' when the failure carries no
\* message (a thrown value that is not an Error, or an Error whose message
\* is empty).
C17_FallbackMessage ==
  [][\A i \in 1..Len(aAttempts), err \in TransportErrors :
        (AFetchRejects(i, err) /\ aMounted)
          => /\ aError' # <<"msg", "">>
             /\ err.message = <<"msg", "">> => aError' = <<"msg", "Failed to fetch data">>]_vars

\* C18: in both hooks, the step in which an attempt of a mounted instance
\* completes without having been cancelled (its fetch answers with a status
\* outside 2xx or rejects, or its body read settles) ends in a settled result
\* state: isLoading = false and either the parsed body stored in data or
\* error set; the failure is consumed by the catch block of the attempt.
C18_CompletedAttemptSettles ==
  [][/\ \A i \in 1..Len(aAttempts) :
          (aMounted /\ aAttempts[i].ctl \notin aAborted
             /\ aAttempts[i].pc # "done" /\ aAttempts'[i].pc = "done")
            => /\ ~aLoading'
               /\ \/ aAttempts'[i].out = "ok" /\ aData' # Null
                  \/ aAttempts'[i].out = "error" /\ aError' # Null
     /\ \A i \in 1..Len(bAttempts) :
          (bMounted /\ bAttempts[i].ctl \notin bAborted
             /\ bAttempts[i].pc # "done" /\ bAttempts'[i].pc = "done")
            => /\ ~bLoading'
               /\ \/ bAttempts'[i].out = "ok" /\ bData' # Null
                  \/ bAttempts'[i].out = "error" /\ bError' = TRUE]_vars

C18_Witness ==
  /\ bMounted /\ Len(bAttempts) = 2
  /\ bAttempts[1].out = "error" /\ bAttempts[2].out = "ok"
  /\ bAborted = {} /\ ~bLoading /\ bData # Null

\* C19: Unit B with polling disabled next to Unit A without refetch calls,
\* given the same key changes and the same transport outcomes: in every state
\* both hooks have issued the same requests with the same progress, data and
\* isLoading are equal, and Unit B's error is true exactly when Unit A's
\* error is a message.
C19_PollingDisabledEquivalent ==
  /\ Len(aAttempts) = Len(bAttempts)
  /\ \A i \in 1..Len(aAttempts) :
       /\ aAttempts[i].url = bAttempts[i].url
       /\ aAttempts[i].pc = bAttempts[i].pc
       /\ aAttempts[i].out = bAttempts[i].out
  /\ aData = bData
  /\ aLoading = bLoading
  /\ (aError # Null) = bError

C19_Witness ==
  /\ aMounted /\ bMounted
  /\ Len(aAttempts) = 2 /\ Len(bAttempts) = 2
  /\ aAttempts[1].out = "error" /\ aAttempts[2].out = "ok"
  /\ aAttempts[1].url # aAttempts[2].url
  /\ bData = <<"list", bUrl>> /\ bError = TRUE /\ aError # Null

\* C20: in both hooks, whenever an attempt of a later effect (issued after a
\* key change, a refetch, a url change or an interval change) exists, the
\* controller of every attempt of an earlier effect has been aborted; the
\* step that issues the new attempt is the one that aborts the old
\* controller; an unmount aborts the last controller and issues no attempt,
\* and none is issued afterwards.
C20_CancelBeforeNextAttempt ==
  /\ [](/\ \A i, j \in 1..Len(aAttempts) :
             aAttempts[i].ctl < aAttempts[j].ctl => aAttempts[i].ctl \in aAborted
        /\ \A i, j \in 1..Len(bAttempts) :
             bAttempts[i].ctl < bAttempts[j].ctl => bAttempts[i].ctl \in bAborted
        /\ (~aMounted /\ aEffects # <<>>) => Len(aEffects) \in aAborted
        /\ (~bMounted /\ bEffects # <<>>) => Len(bEffects) \in bAborted)
  /\ [][/\ (~aMounted \/ ~aMounted') => Len(aAttempts') = Len(aAttempts)
        /\ (~bMounted \/ ~bMounted') => Len(bAttempts') = Len(bAttempts)
        /\ Len(aEffects') > Len(aEffects) => 1..Len(aEffects) \subseteq aAborted'
        /\ Len(bEffects') > Len(bEffects) => 1..Len(bEffects) \subseteq bAborted']_vars

C20_Witness ==
  /\ aMounted /\ Len(aAttempts) = 2
  /\ aAttempts[1].pc = "fetch" /\ aAttempts[2].pc = "fetch"
  /\ aAttempts[1].ctl = 1 /\ aAttempts[2].ctl = 2
  /\ aAborted = {1}

\* C21: Unit A, the refetch trigger counter starts at 0 and never decreases;
\* it changes only in a refetchData() call, which increases it by exactly 1
\* and leaves data, isLoading, error and the key as they were.
C21_RefetchTriggerCounts ==
  /\ aTrigger = 0
  /\ [][/\ aTrigger' >= aTrigger
        /\ aTrigger' # aTrigger => ARefetch
        /\ ARefetch => /\ aTrigger' = aTrigger + 1
                       /\ UNCHANGED <<aData, aLoading, aError, aUrl>>]_vars

C21_Witness ==
  /\ aMounted /\ aTrigger = 2
  /\ Len(aAttempts) = 1 /\ aAttempts[1].out = "ok"
  /\ aEffects[1].deps = ADeps(aUrl, 0)
  /\ aData # Null /\ ~aLoading /\ aError = Null

\* C24: in both hooks, error present and isLoading = true never occur
\* together, neither in the state cells nor in the render state ProductGrid
\* hands to its children: error present implies isLoading = false.
C24_ErrorImpliesNotLoading ==
  /\ aError # Null => ~aLoading
  /\ aRender.error # Null => ~aRender.isLoading
  /\ bError => ~bLoading

C24_Witness ==
  /\ bMounted /\ Len(bAttempts) = 3
  /\ bAttempts[1].out = "error" /\ bAttempts[2].out = "ok" /\ bAttempts[3].out = "error"
  /\ bError /\ ~bLoading

\* C25: in both hooks, an attempt ends as a silently discarded cancellation
\* only if abort() was called on its controller, and when the last attempt
\* issued has ended on a mounted instance with its controller not aborted,
\* isLoading is false or an error is set.
C25_OnlyCancelledIsDiscarded ==
  /\ \A i \in 1..Len(aAttempts) :
       /\ aAttempts[i].out = "aborted" => aAttempts[i].ctl \in aAborted
       /\ (ALive(i) /\ aAttempts[i].pc = "done") => ~(aLoading /\ aError = Null)
  /\ \A i \in 1..Len(bAttempts) :
       /\ bAttempts[i].out = "aborted" => bAttempts[i].ctl \in bAborted
       /\ (BLive(i) /\ bAttempts[i].pc = "done") => ~(bLoading /\ ~bError)

C25_Witness ==
  /\ aMounted /\ Len(aAttempts) = 2
  /\ aAttempts[1].out = "aborted" /\ aAttempts[2].out = "error"
  /\ aAborted = {1}
  /\ aError = <<"msg", "Failed to fetch">> /\ ~aLoading

\* C26: in both hooks, data changes only in a step in which an attempt
\* succeeds, and then it becomes the parsed body of that attempt; the start
\* of an attempt (key change, refetch, timer tick) and the failure or
\* cancellation of an attempt leave data as the last success stored it.
C26_DataChangesOnlyAtSuccess ==
  [][/\ aData' # aData =>
          \E i \in 1..Len(aAttempts) :
            /\ aAttempts[i].pc = "json" /\ aAttempts'[i].out = "ok"
            /\ aData' = ResponseJson(JsonText(aAttempts[i].url)).value
     /\ bData' # bData =>
          \E i \in 1..Len(bAttempts) :
            /\ bAttempts[i].pc = "json" /\ bAttempts'[i].out = "ok"
            /\ bData' = ResponseJson(JsonText(bAttempts[i].url)).value]_vars

C26_Witness ==
  /\ aMounted /\ aUrl = "/b" /\ Len(aAttempts) = 2
  /\ aAttempts[1].url = "/a" /\ aAttempts[1].out = "ok"
  /\ aAttempts[2].url = "/b" /\ aAttempts[2].out = "error"
  /\ aData = <<"list", "/a">>

\* C27: in both hooks, isLoading is true from the first render on, and
\* whenever isLoading is false (in the state cell or in the render state) at
\* least one attempt of the instance has settled by storing data or setting
\* an error.
C27_NotLoadingMeansSettled ==
  /\ (~aLoading \/ ~aRender.isLoading) =>
       \E i \in 1..Len(aAttempts) : aAttempts[i].out \in {"ok", "error"}
  /\ ~bLoading =>
       \E i \in 1..Len(bAttempts) : bAttempts[i].out \in {"ok", "error"}

C27_Witness ==
  /\ bMounted /\ Len(bAttempts) = 2
  /\ bAttempts[1].pc = "fetch" /\ bAttempts[2].out = "error"
  /\ ~bLoading /\ bData = Null

\* C28: Unit B, a render that changes the interval makes the effect run
\* again; when the effect re-runs for the same url (only the interval
\* changed, polling switched on or off included) the controller of the old
\* effect is aborted, its timer is cleared, exactly one attempt of the new
\* effect is issued in that step, and a timer is set for the new effect
\* exactly when the new interval is positive; never more than one timer is
\* active.
C28_IntervalChangeRestarts ==
  /\ [](Cardinality(bTimers) <= 1)
  /\ [][/\ bInterval' # bInterval => BLastDeps' # BDeps(bUrl', bInterval')
        /\ (BEffect /\ bEffects # <<>> /\ bEffects[Len(bEffects)].url = bUrl) =>
             /\ Len(bEffects) \in bAborted'
             /\ Len(bEffects) \notin bTimers'
             /\ Len(bAttempts') = Len(bAttempts) + 1
             /\ bAttempts'[Len(bAttempts')].ctl = Len(bEffects) + 1
             /\ (Len(bEffects) + 1 \in bTimers') = (bInterval = PollT)]_vars

C28_Witness ==
  /\ bMounted /\ Len(bEffects) = 2
  /\ bEffects[1].url = bEffects[2].url
  /\ bEffects[1].interval = PollT /\ bEffects[2].interval = Undefined
  /\ Len(bAttempts) = 2 /\ bAttempts[1].pc = "fetch" /\ bAttempts[2].pc = "fetch"
  /\ bAborted = {1} /\ bTimers = {}

\* C23: a call of window.fetch is answered by a mock handler exactly when the
\* request URL is one of the configured endpoint keys, and then by the
\* handler of that key; for every other URL string the call reaches the
\* original fetch with the same input and the same init.
C23_MockAnswersOnlyEndpoints ==
  \A n \in 1..Len(fetchLog) :
    LET r == fetchLog[n]
        url == UrlOf(r.input)
    IN  /\ r.by = "mockProductApi" <=> url \in ProductEndpoints
        /\ r.by = "PollingDemo" <=> url \in PollingEndpoints
        /\ r.by # "originalFetch" => r.handler = url
        /\ url \notin ProductEndpoints \cup PollingEndpoints =>
             /\ r.by = "originalFetch"
             /\ r.passedInput = r.input /\ r.passedInit = r.init

\* a step of the hook instance of ProductGrid j: a refetch, an effect run,
\* the settlement of one of its attempts, or its unmount
GridStepOf(j) ==
  \/ GridRefetch(j)
  \/ \E u \in Grids : GridKeyChange(j, u)
  \/ GridEffect(j)
  \/ \E i \in 1..MaxControllers, st \in Statuses : GridFetchResolves(j, i, st)
  \/ \E i \in 1..MaxControllers : GridFetchAborts(j, i)
  \/ \E i \in 1..MaxControllers, b \in UNION {Bodies(u) : u \in Grids} : GridJsonSettles(j, i, b)
  \/ GridUnmount(j)

====
